---- MODULE Spec2Model ----
(***************************************************************************)
(* The two alarm drivers of PillSyncOS as one state machine:               *)
(*   functions/piezo_alarm.py     a piezo buzzer on one GPIO pin           *)
(*   functions/neopixel_alarm.py  an 8-LED addressable strip               *)
(* Every statement of the drivers that touches the hardware, the clock or  *)
(* a module global is one step of the thread that runs it.  The hardware   *)
(* is a recording double: hw[t] is the list of hardware calls and sleeps   *)
(* made by the call thread t is running (or ran last), printed[t] the      *)
(* lines it printed.                                                       *)
(***************************************************************************)
EXTENDS Integers, Sequences, FiniteSets

\* ---------------------------------------------------------------- bounds
MaxDuration == 2
MaxBeeps == 2
MaxInterval == 1

\* ------------------------------------------------------------- constants
Threads == {"t1", "t2"}
Main == "t1"

HIGH == "HIGH"
LOW == "LOW"
BLACK == "black"
RED == "red"
Colors == {BLACK, RED}
None == 0

Durations == (0 - 1)..MaxDuration
Counts == 0..MaxBeeps
Intervals == 0..MaxInterval

\* Longest record a call can leave when its loop terminates by itself or by a
\* failure (construction, the groups, the mark of a failure, the final
\* black-out); only a loop whose group takes no time at all runs into it.
MaxLog == 6 + MaxDuration * (6 * MaxBeeps + 1)

NoArgs ==
    [duration |-> 0, count |-> 0, on_time |-> 0, off_time |-> 0,
     group_pause |-> 0, color |-> BLACK]

VARIABLES
    RPI_AVAILABLE,       \* piezo_alarm.RPI_AVAILABLE
    NEOPIXEL_AVAILABLE,  \* neopixel_alarm.NEOPIXEL_AVAILABLE
    _initialized,        \* piezo_alarm._initialized
    pin,                 \* level driven on PIEZO_PIN
    pinMode,             \* "IN" (not configured / released) or "OUT"
    setups,              \* GPIO.setup calls since the pin was last released
    _pixels,             \* neopixel_alarm._pixels: None or a strip handle
    staged,              \* staged[h]: colour filled into strip h, not yet shown
    leds,                \* colour the LEDs show
    clock,               \* time.time(), counted from the entry of the call
    pc, stack,           \* per thread: statement to run next, return labels
    fn, args,            \* per thread: the public call it runs, its arguments
    i, start, exc,       \* per thread: loop index, start time, pending exception
    pixels, color,       \* per thread: locals of _set_all / cleanup
    retval,              \* per thread: value _init_pixels returned last
    result,              \* per thread: "none", "returned" or "raised"
    hw, printed, blocked, \* per thread: hardware record, lines printed, time slept
    overlapped           \* history: some call was entered while another was running

flags == <<RPI_AVAILABLE, NEOPIXEL_AVAILABLE>>
gpio == <<_initialized, pin, pinMode, setups>>
strip == <<_pixels, staged, leds>>
ctl == <<pc, stack, result>>
callv == <<fn, args, overlapped>>
loopv == <<i, start, exc>>
setv == <<pixels, color, retval>>
vars == <<flags, gpio, strip, clock, ctl, callv, loopv, setv, hw, printed, blocked>>

\* --------------------------------------------------------------- helpers
Idle(t) == pc[t] = "idle"

Goto(t, l) ==
    /\ pc' = [pc EXCEPT ![t] = l]
    /\ UNCHANGED <<stack, result>>

Invoke(t, entry, back) ==
    /\ pc' = [pc EXCEPT ![t] = entry]
    /\ stack' = [stack EXCEPT ![t] = <<back>> \o @]
    /\ UNCHANGED result

Return(t) ==
    IF stack[t] = <<>>
    THEN /\ pc' = [pc EXCEPT ![t] = "done"]
         /\ result' = [result EXCEPT ![t] = IF exc[t] THEN "raised" ELSE "returned"]
         /\ UNCHANGED stack
    ELSE /\ pc' = [pc EXCEPT ![t] = Head(stack[t])]
         /\ stack' = [stack EXCEPT ![t] = Tail(@)]
         /\ UNCHANGED result

Record(t, ops) ==
    /\ Len(hw[t]) + Len(ops) <= MaxLog
    /\ hw' = [hw EXCEPT ![t] = @ \o ops]

Sleep(t, dt) ==
    /\ Record(t, <<"sleep">>)
    /\ clock' = clock + dt
    /\ blocked' = [blocked EXCEPT ![t] = @ + dt]

OutOp(level) == IF level = HIGH THEN "out_HIGH" ELSE "out_LOW"

FillOp(c) == IF c = BLACK THEN "fill_black" ELSE "fill_red"

\* t is inside a call (between its entry and its return)
InCall(t) == pc[t] \notin {"idle", "done"}

\* A public function is entered by an idle thread.
Begin(t, f, a, entry) ==
    /\ pc' = [pc EXCEPT ![t] = entry]
    /\ fn' = [fn EXCEPT ![t] = f]
    /\ args' = [args EXCEPT ![t] = a]
    /\ overlapped' = (overlapped \/ \E u \in Threads \ {t} : InCall(u))
    /\ color' = [color EXCEPT ![t] = a.color]
    /\ clock' = IF \A u \in Threads : ~InCall(u) THEN 0 ELSE clock
    /\ UNCHANGED <<flags, gpio, strip, stack, result, loopv, pixels, retval, hw, printed,
                   blocked>>

Init ==
    /\ RPI_AVAILABLE \in BOOLEAN
    /\ NEOPIXEL_AVAILABLE \in BOOLEAN
    /\ _initialized = FALSE
    /\ pin = LOW
    /\ pinMode = "IN"
    /\ setups = 0
    /\ _pixels = None
    /\ staged = <<>>
    /\ leds = BLACK
    /\ clock = 0
    /\ pc = [t \in Threads |-> "idle"]
    /\ stack = [t \in Threads |-> <<>>]
    /\ result = [t \in Threads |-> "none"]
    /\ fn = [t \in Threads |-> "none"]
    /\ args = [t \in Threads |-> NoArgs]
    /\ i = [t \in Threads |-> 0]
    /\ start = [t \in Threads |-> 0]
    /\ exc = [t \in Threads |-> FALSE]
    /\ pixels = [t \in Threads |-> None]
    /\ color = [t \in Threads |-> BLACK]
    /\ retval = [t \in Threads |-> None]
    /\ hw = [t \in Threads |-> <<>>]
    /\ printed = [t \in Threads |-> <<>>]
    /\ blocked = [t \in Threads |-> 0]
    /\ overlapped = FALSE

\* The call has returned to its caller, which goes on: the frame, the record of
\* the call and its outcome are dropped.
call_over(t) ==
    /\ pc[t] = "done"
    /\ pc' = [pc EXCEPT ![t] = "idle"]
    /\ stack' = [stack EXCEPT ![t] = <<>>]
    /\ result' = [result EXCEPT ![t] = "none"]
    /\ fn' = [fn EXCEPT ![t] = "none"]
    /\ args' = [args EXCEPT ![t] = NoArgs]
    /\ UNCHANGED overlapped
    /\ i' = [i EXCEPT ![t] = 0]
    /\ start' = [start EXCEPT ![t] = 0]
    /\ exc' = [exc EXCEPT ![t] = FALSE]
    /\ pixels' = [pixels EXCEPT ![t] = None]
    /\ color' = [color EXCEPT ![t] = BLACK]
    /\ retval' = [retval EXCEPT ![t] = None]
    /\ hw' = [hw EXCEPT ![t] = <<>>]
    /\ printed' = [printed EXCEPT ![t] = <<>>]
    /\ blocked' = [blocked EXCEPT ![t] = 0]
    /\ UNCHANGED <<flags, gpio, strip, clock>>

\* ================================================================ piezo
\* GPIO.output(PIEZO_PIN, level)
GPIO_output(t, level) ==
    /\ Record(t, <<OutOp(level)>>)
    /\ pin' = level
    /\ UNCHANGED <<_initialized, pinMode, setups>>

\* ---- _init_gpio()
call_init_gpio(t) ==
    /\ Idle(t)
    /\ Begin(t, "_init_gpio", NoArgs, "init_gpio")

\* mutant: the initialized flag is not consulted
InitGpioSkips_no_flag == ~RPI_AVAILABLE

\* mutant: the availability flag is not consulted
InitGpioSkips_no_mock == _initialized

InitGpioSkips == _initialized \/ ~RPI_AVAILABLE

init_gpio_enter(t) ==
    /\ pc[t] = "init_gpio"
    /\ IF InitGpioSkips THEN Return(t) ELSE Goto(t, "init_gpio_setmode")
    /\ UNCHANGED <<flags, gpio, strip, clock, callv, loopv, setv, hw, printed, blocked>>

init_gpio_setmode(t) ==
    /\ pc[t] = "init_gpio_setmode"
    /\ Record(t, <<"setmode">>)
    /\ Goto(t, "init_gpio_setup")
    /\ UNCHANGED <<flags, gpio, strip, clock, callv, loopv, setv, printed, blocked>>

init_gpio_setup(t) ==
    /\ pc[t] = "init_gpio_setup"
    /\ Record(t, <<"setup">>)
    /\ pinMode' = "OUT"
    /\ setups' = setups + 1
    /\ Goto(t, "init_gpio_low")
    /\ UNCHANGED <<flags, _initialized, pin, strip, clock, callv, loopv, setv, printed, blocked>>

init_gpio_low(t) ==
    /\ pc[t] = "init_gpio_low"
    /\ GPIO_output(t, LOW)
    /\ Goto(t, "init_gpio_flag")
    /\ UNCHANGED <<flags, strip, clock, callv, loopv, setv, printed, blocked>>

\* mutant: the pin is configured and the flag is left unset
init_gpio_flag_unset(t) ==
    /\ pc[t] = "init_gpio_flag"
    /\ Return(t)
    /\ UNCHANGED <<flags, gpio, strip, clock, callv, loopv, setv, hw, printed, blocked>>

init_gpio_flag(t) ==
    /\ pc[t] = "init_gpio_flag"
    /\ _initialized' = TRUE
    /\ Return(t)
    /\ UNCHANGED <<flags, pin, pinMode, setups, strip, clock, callv, loopv, setv, hw, printed, blocked>>

\* ---- _beep(on_time, off_time)
call_beep(t) ==
    /\ Idle(t)
    /\ \E on \in Intervals, off \in Intervals :
        Begin(t, "_beep", [NoArgs EXCEPT !.on_time = on, !.off_time = off], "beep")

beep_enter(t) ==
    /\ pc[t] = "beep"
    /\ Invoke(t, "init_gpio", "beep_check")
    /\ UNCHANGED <<flags, gpio, strip, clock, callv, loopv, setv, hw, printed, blocked>>

beep_check(t) ==
    /\ pc[t] = "beep_check"
    /\ IF ~RPI_AVAILABLE THEN Return(t) ELSE Goto(t, "beep_high")
    /\ UNCHANGED <<flags, gpio, strip, clock, callv, loopv, setv, hw, printed, blocked>>

beep_high(t) ==
    /\ pc[t] = "beep_high"
    /\ GPIO_output(t, HIGH)
    /\ Goto(t, "beep_on")
    /\ UNCHANGED <<flags, strip, clock, callv, loopv, setv, printed, blocked>>

beep_on(t) ==
    /\ pc[t] = "beep_on"
    /\ Sleep(t, args[t].on_time)
    /\ Goto(t, "beep_low")
    /\ UNCHANGED <<flags, gpio, strip, callv, loopv, setv, printed>>

beep_low(t) ==
    /\ pc[t] = "beep_low"
    /\ GPIO_output(t, LOW)
    /\ Goto(t, "beep_off")
    /\ UNCHANGED <<flags, strip, clock, callv, loopv, setv, printed, blocked>>

beep_off(t) ==
    /\ pc[t] = "beep_off"
    /\ Sleep(t, args[t].off_time)
    /\ Return(t)
    /\ UNCHANGED <<flags, gpio, strip, callv, loopv, setv, printed>>

\* ---- alarm(duration, beeps_per_group, beep_on_time, beep_off_time, group_pause)
call_alarm(t) ==
    /\ Idle(t)
    /\ \E d \in Durations, n \in Counts, on \in Intervals, off \in Intervals,
       pause \in Intervals :
        Begin(t, "alarm",
              [NoArgs EXCEPT !.duration = d, !.count = n, !.on_time = on,
                             !.off_time = off, !.group_pause = pause],
              "alarm")

\* alarm() called by one of several threads that share the driver
thread_alarm(t) ==
    /\ Idle(t)
    /\ \E d \in 1..MaxInterval, on \in 1..MaxInterval :
        Begin(t, "alarm",
              [NoArgs EXCEPT !.duration = d, !.count = 1, !.on_time = on],
              "alarm")

\* mutant: the mock branch prints its notice and falls through into the pattern
alarm_enter_no_return(t) ==
    /\ pc[t] = "alarm"
    /\ printed' = [printed EXCEPT
                      ![t] = IF RPI_AVAILABLE THEN @ ELSE Append(@, "piezo_alarm MOCK alarm")]
    /\ Invoke(t, "init_gpio", "alarm_start")
    /\ UNCHANGED <<flags, gpio, strip, clock, callv, loopv, setv, hw, blocked>>

alarm_enter(t) ==
    /\ pc[t] = "alarm"
    /\ IF ~RPI_AVAILABLE
       THEN /\ printed' = [printed EXCEPT ![t] = Append(@, "piezo_alarm MOCK alarm")]
            /\ Return(t)
       ELSE /\ Invoke(t, "init_gpio", "alarm_start")
            /\ UNCHANGED printed
    /\ UNCHANGED <<flags, gpio, strip, clock, callv, loopv, setv, hw, blocked>>

alarm_start(t) ==
    /\ pc[t] = "alarm_start"
    /\ start' = [start EXCEPT ![t] = clock]
    /\ Goto(t, "alarm_while")
    /\ UNCHANGED <<flags, gpio, strip, clock, callv, i, exc, setv, hw, printed, blocked>>

\* mutant: the loop goes on while elapsed <= duration
AlarmContinues_le(t) == (clock - start[t]) <= args[t].duration

AlarmContinues(t) == (clock - start[t]) < args[t].duration

\* mutant: the start time is taken anew at every test of the loop
alarm_while_restarts(t) ==
    /\ pc[t] = "alarm_while"
    /\ start' = [start EXCEPT ![t] = clock]
    /\ IF 0 < args[t].duration THEN Goto(t, "alarm_for") ELSE Goto(t, "alarm_finally")
    /\ i' = [i EXCEPT ![t] = 0]
    /\ UNCHANGED <<flags, gpio, strip, clock, callv, exc, setv, hw, printed, blocked>>

alarm_while(t) ==
    /\ pc[t] = "alarm_while"
    /\ IF AlarmContinues(t) THEN Goto(t, "alarm_for") ELSE Goto(t, "alarm_finally")
    /\ i' = [i EXCEPT ![t] = 0]
    /\ UNCHANGED <<flags, gpio, strip, clock, callv, start, exc, setv, hw, printed, blocked>>

\* mutant: the elapsed time is tested before every beep as well
alarm_for_checks_time(t) ==
    /\ pc[t] = "alarm_for"
    /\ IF i[t] < args[t].count
       THEN IF (clock - start[t]) < args[t].duration
            THEN /\ i' = [i EXCEPT ![t] = @ + 1]
                 /\ Goto(t, "alarm_high")
            ELSE /\ UNCHANGED i
                 /\ Goto(t, "alarm_finally")
       ELSE /\ UNCHANGED i
            /\ Goto(t, "alarm_pause")
    /\ UNCHANGED <<flags, gpio, strip, clock, callv, start, exc, setv, hw, printed, blocked>>

alarm_for(t) ==
    /\ pc[t] = "alarm_for"
    /\ IF i[t] < args[t].count
       THEN /\ i' = [i EXCEPT ![t] = @ + 1]
            /\ Goto(t, "alarm_high")
       ELSE /\ UNCHANGED i
            /\ Goto(t, "alarm_pause")
    /\ UNCHANGED <<flags, gpio, strip, clock, callv, start, exc, setv, hw, printed, blocked>>

alarm_high(t) ==
    /\ pc[t] = "alarm_high"
    /\ GPIO_output(t, HIGH)
    /\ Goto(t, "alarm_on")
    /\ UNCHANGED <<flags, strip, clock, callv, loopv, setv, printed, blocked>>

alarm_on(t) ==
    /\ pc[t] = "alarm_on"
    /\ Sleep(t, args[t].on_time)
    /\ Goto(t, "alarm_low")
    /\ UNCHANGED <<flags, gpio, strip, callv, loopv, setv, printed>>

alarm_low(t) ==
    /\ pc[t] = "alarm_low"
    /\ GPIO_output(t, LOW)
    /\ Goto(t, "alarm_off")
    /\ UNCHANGED <<flags, strip, clock, callv, loopv, setv, printed, blocked>>

alarm_off(t) ==
    /\ pc[t] = "alarm_off"
    /\ Sleep(t, args[t].off_time)
    /\ Goto(t, "alarm_for")
    /\ UNCHANGED <<flags, gpio, strip, callv, loopv, setv, printed>>

alarm_pause(t) ==
    /\ pc[t] = "alarm_pause"
    /\ Sleep(t, args[t].group_pause)
    /\ Goto(t, "alarm_while")
    /\ UNCHANGED <<flags, gpio, strip, callv, loopv, setv, printed>>

\* mutant: no finally clause, the call just ends
alarm_finally_no_write(t) ==
    /\ pc[t] = "alarm_finally"
    /\ Return(t)
    /\ UNCHANGED <<flags, gpio, strip, clock, callv, loopv, setv, hw, printed, blocked>>

\* the finally clause: the write, then the pending exception (if any) goes on
alarm_finally(t) ==
    /\ pc[t] = "alarm_finally"
    /\ GPIO_output(t, LOW)
    /\ Return(t)
    /\ UNCHANGED <<flags, strip, clock, callv, loopv, setv, printed, blocked>>

\* mutant: the failure is caught in the loop and the next beep is tried
alarm_output_raises_retry(t) ==
    /\ pc[t] \in {"alarm_high", "alarm_low"}
    /\ Record(t, <<OutOp(IF pc[t] = "alarm_high" THEN HIGH ELSE LOW), "raise">>)
    /\ pin' \in {pin, IF pc[t] = "alarm_high" THEN HIGH ELSE LOW}
    /\ exc' = [exc EXCEPT ![t] = TRUE]
    /\ Goto(t, "alarm_for")
    /\ UNCHANGED <<flags, _initialized, pinMode, setups, strip, clock, callv, i, start,
                   setv, printed, blocked>>

\* A GPIO.output call of the loop raises; the level may or may not have been
\* driven before it did.
alarm_output_raises(t) ==
    /\ pc[t] \in {"alarm_high", "alarm_low"}
    /\ Record(t, <<OutOp(IF pc[t] = "alarm_high" THEN HIGH ELSE LOW), "raise">>)
    /\ pin' \in {pin, IF pc[t] = "alarm_high" THEN HIGH ELSE LOW}
    /\ exc' = [exc EXCEPT ![t] = TRUE]
    /\ Goto(t, "alarm_finally")
    /\ UNCHANGED <<flags, _initialized, pinMode, setups, strip, clock, callv, i, start,
                   setv, printed, blocked>>

\* A time.sleep call of the loop raises (it is interrupted) after part of its
\* interval.
alarm_sleep_raises(t) ==
    /\ pc[t] \in {"alarm_on", "alarm_off", "alarm_pause"}
    /\ Record(t, <<"sleep", "raise">>)
    /\ \E dt \in 0..(CASE pc[t] = "alarm_on" -> args[t].on_time
                       [] pc[t] = "alarm_off" -> args[t].off_time
                       [] OTHER -> args[t].group_pause) :
          /\ clock' = clock + dt
          /\ blocked' = [blocked EXCEPT ![t] = @ + dt]
    /\ exc' = [exc EXCEPT ![t] = TRUE]
    /\ Goto(t, "alarm_finally")
    /\ UNCHANGED <<flags, gpio, strip, callv, i, start, setv, printed>>

\* ---- cleanup()
call_piezo_cleanup(t) ==
    /\ Idle(t)
    /\ Begin(t, "piezo.cleanup", NoArgs, "piezo_cleanup")

\* mutant: cleanup releases the pin without consulting the initialized flag
piezo_cleanup_enter_no_flag(t) ==
    /\ pc[t] = "piezo_cleanup"
    /\ IF ~RPI_AVAILABLE THEN Return(t) ELSE Goto(t, "piezo_cleanup_low")
    /\ UNCHANGED <<flags, gpio, strip, clock, callv, loopv, setv, hw, printed, blocked>>

piezo_cleanup_enter(t) ==
    /\ pc[t] = "piezo_cleanup"
    /\ IF ~RPI_AVAILABLE
       THEN Return(t)
       ELSE IF _initialized THEN Goto(t, "piezo_cleanup_low") ELSE Return(t)
    /\ UNCHANGED <<flags, gpio, strip, clock, callv, loopv, setv, hw, printed, blocked>>

piezo_cleanup_low(t) ==
    /\ pc[t] = "piezo_cleanup_low"
    /\ GPIO_output(t, LOW)
    /\ Goto(t, "piezo_cleanup_release")
    /\ UNCHANGED <<flags, strip, clock, callv, loopv, setv, printed, blocked>>

\* GPIO.cleanup(PIEZO_PIN): the pin goes back to an input and drives nothing
piezo_cleanup_release(t) ==
    /\ pc[t] = "piezo_cleanup_release"
    /\ Record(t, <<"gpio_cleanup">>)
    /\ pinMode' = "IN"
    /\ setups' = 0
    /\ pin' = LOW
    /\ Goto(t, "piezo_cleanup_flag")
    /\ UNCHANGED <<flags, _initialized, strip, clock, callv, loopv, setv, printed, blocked>>

\* mutant: the initialized flag is left set
piezo_cleanup_flag_kept(t) ==
    /\ pc[t] = "piezo_cleanup_flag"
    /\ Return(t)
    /\ UNCHANGED <<flags, gpio, strip, clock, callv, loopv, setv, hw, printed, blocked>>

piezo_cleanup_flag(t) ==
    /\ pc[t] = "piezo_cleanup_flag"
    /\ _initialized' = FALSE
    /\ Return(t)
    /\ UNCHANGED <<flags, pin, pinMode, setups, strip, clock, callv, loopv, setv, hw,
                   printed, blocked>>

\* ================================================================ pixel
\* pixels.fill(c) on strip h: staged only, the LEDs keep what they show
NeoPixel_fill(t, h, c) ==
    /\ Record(t, <<FillOp(c)>>)
    /\ staged' = [staged EXCEPT ![h] = c]
    /\ UNCHANGED <<_pixels, leds>>

\* pixels.show() on strip h: the staged colour reaches the LEDs
NeoPixel_show(t, h) ==
    /\ Record(t, <<"show">>)
    /\ leds' = staged[h]
    /\ UNCHANGED <<_pixels, staged>>

\* ---- _init_pixels()
call_init_pixels(t) ==
    /\ Idle(t)
    /\ Begin(t, "_init_pixels", NoArgs, "init_pixels")

InitPixelsCached == _pixels # None

init_pixels_enter(t) ==
    /\ pc[t] = "init_pixels"
    /\ IF InitPixelsCached
       THEN /\ retval' = [retval EXCEPT ![t] = _pixels]
            /\ Return(t)
            /\ UNCHANGED printed
       ELSE IF ~NEOPIXEL_AVAILABLE
            THEN /\ printed' = [printed EXCEPT
                                  ![t] = Append(@, "neopixel_alarm MOCK not available")]
                 /\ retval' = [retval EXCEPT ![t] = None]
                 /\ Return(t)
            ELSE /\ Goto(t, "init_pixels_new")
                 /\ UNCHANGED <<printed, retval>>
    /\ UNCHANGED <<flags, gpio, strip, clock, callv, loopv, pixels, color, hw, blocked>>

\* _pixels = neopixel.NeoPixel(PIXEL_PIN, NUM_PIXELS, ..., auto_write=False):
\* a new strip object with a black buffer; nothing is pushed yet
init_pixels_new(t) ==
    /\ pc[t] = "init_pixels_new"
    /\ Record(t, <<"NeoPixel">>)
    /\ staged' = Append(staged, BLACK)
    /\ _pixels' = Len(staged) + 1
    /\ Goto(t, "init_pixels_fill")
    /\ UNCHANGED <<flags, gpio, leds, clock, callv, loopv, setv, printed, blocked>>

init_pixels_fill(t) ==
    /\ pc[t] = "init_pixels_fill"
    /\ NeoPixel_fill(t, _pixels, BLACK)
    /\ Goto(t, "init_pixels_show")
    /\ UNCHANGED <<flags, gpio, clock, callv, loopv, setv, printed, blocked>>

init_pixels_show(t) ==
    /\ pc[t] = "init_pixels_show"
    /\ NeoPixel_show(t, _pixels)
    /\ Goto(t, "init_pixels_return")
    /\ UNCHANGED <<flags, gpio, clock, callv, loopv, setv, printed, blocked>>

init_pixels_return(t) ==
    /\ pc[t] = "init_pixels_return"
    /\ retval' = [retval EXCEPT ![t] = _pixels]
    /\ Return(t)
    /\ UNCHANGED <<flags, gpio, strip, clock, callv, loopv, pixels, color, hw, printed,
                   blocked>>

\* ---- _set_all(color)
call_set_all(t) ==
    /\ Idle(t)
    /\ \E c \in Colors : Begin(t, "_set_all", [NoArgs EXCEPT !.color = c], "set_all")

set_all_enter(t) ==
    /\ pc[t] = "set_all"
    /\ Invoke(t, "init_pixels", "set_all_check")
    /\ UNCHANGED <<flags, gpio, strip, clock, callv, loopv, setv, hw, printed, blocked>>

set_all_check(t) ==
    /\ pc[t] = "set_all_check"
    /\ pixels' = [pixels EXCEPT ![t] = retval[t]]
    /\ IF retval[t] = None THEN Return(t) ELSE Goto(t, "set_all_fill")
    /\ UNCHANGED <<flags, gpio, strip, clock, callv, loopv, color, retval, hw, printed,
                   blocked>>

\* mutant: the colour is staged and never pushed
set_all_fill_no_show(t) ==
    /\ pc[t] = "set_all_fill"
    /\ NeoPixel_fill(t, pixels[t], color[t])
    /\ Return(t)
    /\ UNCHANGED <<flags, gpio, clock, callv, loopv, setv, printed, blocked>>

set_all_fill(t) ==
    /\ pc[t] = "set_all_fill"
    /\ NeoPixel_fill(t, pixels[t], color[t])
    /\ Goto(t, "set_all_show")
    /\ UNCHANGED <<flags, gpio, clock, callv, loopv, setv, printed, blocked>>

set_all_show(t) ==
    /\ pc[t] = "set_all_show"
    /\ NeoPixel_show(t, pixels[t])
    /\ Return(t)
    /\ UNCHANGED <<flags, gpio, clock, callv, loopv, setv, printed, blocked>>

\* ---- alarm_flash(duration, flash_on_time, flash_off_time, group_flashes,
\*                  group_pause, color)
call_alarm_flash(t) ==
    /\ Idle(t)
    /\ \E d \in Durations, n \in Counts, on \in Intervals, off \in Intervals,
          pause \in Intervals, c \in Colors :
        Begin(t, "alarm_flash",
              [duration |-> d, count |-> n, on_time |-> on, off_time |-> off,
               group_pause |-> pause, color |-> c],
              "alarm_flash")

\* alarm_flash() called by one of several threads that share the driver
thread_alarm_flash(t) ==
    /\ Idle(t)
    /\ \E d \in 1..MaxInterval, on \in 1..MaxInterval :
        Begin(t, "alarm_flash",
              [NoArgs EXCEPT !.duration = d, !.count = 1, !.on_time = on, !.color = RED],
              "alarm_flash")

flash_enter(t) ==
    /\ pc[t] = "alarm_flash"
    /\ IF ~NEOPIXEL_AVAILABLE
       THEN /\ printed' = [printed EXCEPT
                             ![t] = Append(@, "neopixel_alarm MOCK alarm_flash")]
            /\ Return(t)
       ELSE /\ Goto(t, "flash_start")
            /\ UNCHANGED printed
    /\ UNCHANGED <<flags, gpio, strip, clock, callv, loopv, setv, hw, blocked>>

flash_start(t) ==
    /\ pc[t] = "flash_start"
    /\ start' = [start EXCEPT ![t] = clock]
    /\ Invoke(t, "init_pixels", "flash_while")
    /\ UNCHANGED <<flags, gpio, strip, clock, callv, i, exc, setv, hw, printed, blocked>>

\* mutant: the elapsed time is compared with the magnitude of the duration
FlashContinues_magnitude(t) ==
    (clock - start[t]) <
        (IF args[t].duration < 0 THEN 0 - args[t].duration ELSE args[t].duration)

\* mutant: the elapsed time is compared with the duration plus one more group
FlashContinues_extra_group(t) ==
    (clock - start[t]) <
        args[t].duration + args[t].count * (args[t].on_time + args[t].off_time)
            + args[t].group_pause

FlashContinues(t) == (clock - start[t]) < args[t].duration

flash_while(t) ==
    /\ pc[t] = "flash_while"
    /\ IF FlashContinues(t) THEN Goto(t, "flash_for") ELSE Goto(t, "flash_finally")
    /\ i' = [i EXCEPT ![t] = 0]
    /\ UNCHANGED <<flags, gpio, strip, clock, callv, start, exc, setv, hw, printed, blocked>>

flash_for(t) ==
    /\ pc[t] = "flash_for"
    /\ IF i[t] < args[t].count
       THEN /\ i' = [i EXCEPT ![t] = @ + 1]
            /\ Goto(t, "flash_set_on")
       ELSE /\ UNCHANGED i
            /\ Goto(t, "flash_pause")
    /\ UNCHANGED <<flags, gpio, strip, clock, callv, start, exc, setv, hw, printed, blocked>>

flash_set_on(t) ==
    /\ pc[t] = "flash_set_on"
    /\ color' = [color EXCEPT ![t] = args[t].color]
    /\ Invoke(t, "set_all", "flash_on")
    /\ UNCHANGED <<flags, gpio, strip, clock, callv, loopv, pixels, retval, hw, printed,
                   blocked>>

flash_on(t) ==
    /\ pc[t] = "flash_on"
    /\ Sleep(t, args[t].on_time)
    /\ Goto(t, "flash_set_off")
    /\ UNCHANGED <<flags, gpio, strip, callv, loopv, setv, printed>>

flash_set_off(t) ==
    /\ pc[t] = "flash_set_off"
    /\ color' = [color EXCEPT ![t] = BLACK]
    /\ Invoke(t, "set_all", "flash_off")
    /\ UNCHANGED <<flags, gpio, strip, clock, callv, loopv, pixels, retval, hw, printed,
                   blocked>>

flash_off(t) ==
    /\ pc[t] = "flash_off"
    /\ Sleep(t, args[t].off_time)
    /\ Goto(t, "flash_for")
    /\ UNCHANGED <<flags, gpio, strip, callv, loopv, setv, printed>>

flash_pause(t) ==
    /\ pc[t] = "flash_pause"
    /\ Sleep(t, args[t].group_pause)
    /\ Goto(t, "flash_while")
    /\ UNCHANGED <<flags, gpio, strip, callv, loopv, setv, printed>>

\* the finally clause: _set_all((0, 0, 0)), then the pending exception goes on
flash_finally(t) ==
    /\ pc[t] = "flash_finally"
    /\ color' = [color EXCEPT ![t] = BLACK]
    /\ Invoke(t, "set_all", "flash_exit")
    /\ UNCHANGED <<flags, gpio, strip, clock, callv, loopv, pixels, retval, hw, printed,
                   blocked>>

flash_exit(t) ==
    /\ pc[t] = "flash_exit"
    /\ Return(t)
    /\ UNCHANGED <<flags, gpio, strip, clock, callv, loopv, setv, hw, printed, blocked>>

\* t runs a _set_all that the try block of alarm_flash called
InFlashTry(t) ==
    /\ fn[t] = "alarm_flash"
    /\ stack[t] # <<>>
    /\ stack[t][Len(stack[t])] \in {"flash_on", "flash_off"}

\* the exception leaves every frame down to the try block of alarm_flash
Unwind(t) ==
    /\ exc' = [exc EXCEPT ![t] = TRUE]
    /\ pc' = [pc EXCEPT ![t] = "flash_finally"]
    /\ stack' = [stack EXCEPT ![t] = <<>>]
    /\ UNCHANGED result

\* fill raises inside the loop; the buffer may or may not hold the colour
flash_fill_raises(t) ==
    /\ pc[t] = "set_all_fill"
    /\ InFlashTry(t)
    /\ Record(t, <<FillOp(color[t]), "raise">>)
    /\ staged' \in {staged, [staged EXCEPT ![pixels[t]] = color[t]]}
    /\ Unwind(t)
    /\ UNCHANGED <<flags, gpio, _pixels, leds, clock, callv, i, start, setv, printed,
                   blocked>>

\* show raises inside the loop; the LEDs may or may not have been updated
flash_show_raises(t) ==
    /\ pc[t] = "set_all_show"
    /\ InFlashTry(t)
    /\ Record(t, <<"show", "raise">>)
    /\ leds' \in {leds, staged[pixels[t]]}
    /\ Unwind(t)
    /\ UNCHANGED <<flags, gpio, _pixels, staged, clock, callv, i, start, setv, printed,
                   blocked>>

flash_sleep_raises(t) ==
    /\ pc[t] \in {"flash_on", "flash_off", "flash_pause"}
    /\ Record(t, <<"sleep", "raise">>)
    /\ \E dt \in 0..(CASE pc[t] = "flash_on" -> args[t].on_time
                       [] pc[t] = "flash_off" -> args[t].off_time
                       [] OTHER -> args[t].group_pause) :
          /\ clock' = clock + dt
          /\ blocked' = [blocked EXCEPT ![t] = @ + dt]
    /\ Unwind(t)
    /\ UNCHANGED <<flags, gpio, strip, callv, i, start, setv, printed>>

\* ---- cleanup()
call_pixel_cleanup(t) ==
    /\ Idle(t)
    /\ Begin(t, "pixel.cleanup", NoArgs, "pixel_cleanup")

pixel_cleanup_enter(t) ==
    /\ pc[t] = "pixel_cleanup"
    /\ Invoke(t, "init_pixels", "pixel_cleanup_check")
    /\ UNCHANGED <<flags, gpio, strip, clock, callv, loopv, setv, hw, printed, blocked>>

\* mutant: the strip is not blacked out
pixel_cleanup_check_no_black(t) ==
    /\ pc[t] = "pixel_cleanup_check"
    /\ pixels' = [pixels EXCEPT ![t] = retval[t]]
    /\ Return(t)
    /\ UNCHANGED <<flags, gpio, strip, clock, callv, loopv, color, retval, hw, printed,
                   blocked>>

pixel_cleanup_check(t) ==
    /\ pc[t] = "pixel_cleanup_check"
    /\ pixels' = [pixels EXCEPT ![t] = retval[t]]
    /\ IF retval[t] # None
       THEN /\ color' = [color EXCEPT ![t] = BLACK]
            /\ Invoke(t, "set_all", "pixel_cleanup_exit")
       ELSE /\ UNCHANGED color
            /\ Return(t)
    /\ UNCHANGED <<flags, gpio, strip, clock, callv, loopv, retval, hw, printed, blocked>>

\* mutant: cleanup gives the strip up, as the piezo cleanup gives up its pin
pixel_cleanup_exit_releases(t) ==
    /\ pc[t] = "pixel_cleanup_exit"
    /\ _pixels' = None
    /\ Return(t)
    /\ UNCHANGED <<flags, gpio, staged, leds, clock, callv, loopv, setv, hw, printed,
                   blocked>>

pixel_cleanup_exit(t) ==
    /\ pc[t] = "pixel_cleanup_exit"
    /\ Return(t)
    /\ UNCHANGED <<flags, gpio, strip, clock, callv, loopv, setv, hw, printed, blocked>>

\* =========================================================== properties
Has(log, e) == \E k \in 1..Len(log) : log[k] = e

IsPrefix(a, b) == Len(a) <= Len(b) /\ a = SubSeq(b, 1, Len(a))

IsOutWrite(e) == e \in {"out_HIGH", "out_LOW"}

OutWrites(log) == SelectSeq(log, IsOutWrite)

RECURSIVE Repeat(_, _)
Repeat(s, k) == IF k <= 0 THEN <<>> ELSE s \o Repeat(s, k - 1)

AfterRaise(log) ==
    LET k == CHOOSE j \in 1..Len(log) : log[j] = "raise" /\ \A m \in 1..(j - 1) : log[m] # "raise"
    IN  SubSeq(log, k + 1, Len(log))

InitGpioRecord == <<"setmode", "setup", "out_LOW">>
InitPixelsRecord == <<"NeoPixel", "fill_black", "show">>
BlackRecord == <<"fill_black", "show">>

PiezoCalls == {"_init_gpio", "_beep", "alarm", "piezo.cleanup"}
PixelCalls == {"_init_pixels", "_set_all", "alarm_flash", "pixel.cleanup"}

Cycle(t) == args[t].count * (args[t].on_time + args[t].off_time) + args[t].group_pause

\* C1. With hardware available, when alarm() / alarm_flash() has returned,
\* normally or by propagating a failure raised inside the pattern loop, the
\* last level written to the output is INACTIVE: the pin is LOW and the last
\* GPIO.output of the call wrote LOW; the LEDs are black and the call ended
\* with fill(black), show().
C1_OffOnExit ==
    \A t \in Threads :
        pc[t] = "done" =>
            /\ (fn[t] = "alarm" /\ RPI_AVAILABLE) =>
                   /\ pin = LOW
                   /\ OutWrites(hw[t]) # <<>>
                   /\ OutWrites(hw[t])[Len(OutWrites(hw[t]))] = "out_LOW"
            /\ (fn[t] = "alarm_flash" /\ NEOPIXEL_AVAILABLE) =>
                   /\ leds = BLACK
                   /\ Len(hw[t]) >= 2
                   /\ SubSeq(hw[t], Len(hw[t]) - 1, Len(hw[t])) = BlackRecord

\* an alarm() whose on-time sleep was interrupted while the pin was HIGH
C1_Witness ==
    \E t \in Threads :
        /\ pc[t] = "done" /\ fn[t] = "alarm" /\ result[t] = "raised"
        /\ Len(hw[t]) >= 4
        /\ SubSeq(hw[t], Len(hw[t]) - 3, Len(hw[t]))
               = <<"out_HIGH", "sleep", "raise", "out_LOW">>

\* the hardware configuration is performed once: state part of C2
C2_ConfiguredOnce ==
    /\ setups <= 1
    /\ Len(staged) <= 1
    /\ (_initialized /\ \A t \in Threads : pc[t] # "piezo_cleanup_flag") =>
           (setups = 1 /\ pinMode = "OUT")
    /\ (_pixels # None) => (Len(staged) = 1 /\ _pixels = 1)
    /\ \A t \in Threads :
        /\ (pc[t] = "done" /\ fn[t] = "_init_gpio" /\ RPI_AVAILABLE) =>
               (_initialized /\ hw[t] \in {<<>>, InitGpioRecord})
        /\ (pc[t] = "done" /\ fn[t] = "_init_pixels" /\ NEOPIXEL_AVAILABLE) =>
               (_pixels # None /\ hw[t] \in {<<>>, InitPixelsRecord})
        /\ (fn[t] \in PiezoCalls) =>
               /\ Len(SelectSeq(hw[t], LAMBDA e : e = "setmode")) <= 1
               /\ Len(SelectSeq(hw[t], LAMBDA e : e = "setup")) <= 1
        /\ (fn[t] \in PixelCalls) =>
               Len(SelectSeq(hw[t], LAMBDA e : e = "NeoPixel")) <= 1

\* an init call on an initialized driver returns at once: step part of C2
C2_LaterInitStep ==
    \A t \in Threads :
        /\ (pc[t] = "init_gpio" /\ _initialized) =>
               /\ UNCHANGED <<gpio, strip, hw, printed>>
               /\ pc'[t] = IF stack[t] = <<>> THEN "done" ELSE Head(stack[t])
        /\ (pc[t] = "init_pixels" /\ _pixels # None) =>
               /\ UNCHANGED <<gpio, strip, hw, printed>>
               /\ pc'[t] = IF stack[t] = <<>> THEN "done" ELSE Head(stack[t])

\* C2. Init is idempotent: between two releases the pin is set up at most once
\* and the strip is constructed at most once, an initialized driver has been
\* configured exactly once, and an init call that finds the driver initialized
\* returns at once and changes neither the hardware nor the record.
C2_IdempotentInit == []C2_ConfiguredOnce /\ [][C2_LaterInitStep]_vars

\* a direct _init_gpio() call that found the pin configured and did nothing
C2_Witness ==
    \E t \in Threads :
        /\ pc[t] = "done" /\ fn[t] = "_init_gpio"
        /\ _initialized /\ setups = 1 /\ hw[t] = <<>>

\* C3. In mock mode alarm() / alarm_flash() never enters the pattern loop and
\* never sleeps, makes no hardware call, and has printed exactly its one
\* mock notice when it returns.
C3_MockAlarmNoOp ==
    \A t \in Threads :
        /\ (fn[t] = "alarm" /\ ~RPI_AVAILABLE) =>
               /\ pc[t] \in {"alarm", "done"}
               /\ hw[t] = <<>> /\ blocked[t] = 0
               /\ pc[t] = "done" =>
                      (printed[t] = <<"piezo_alarm MOCK alarm">> /\ result[t] = "returned")
        /\ (fn[t] = "alarm_flash" /\ ~NEOPIXEL_AVAILABLE) =>
               /\ pc[t] \in {"alarm_flash", "done"}
               /\ hw[t] = <<>> /\ blocked[t] = 0
               /\ pc[t] = "done" =>
                      (printed[t] = <<"neopixel_alarm MOCK alarm_flash">>
                       /\ result[t] = "returned")

\* alarm(duration = MaxDuration) has returned in mock mode
C3_Witness ==
    \E t \in Threads :
        /\ pc[t] = "done" /\ fn[t] = "alarm" /\ ~RPI_AVAILABLE
        /\ args[t].duration = MaxDuration /\ args[t].count > 0

\* The record alarm() leaves for one group of n beeps: n times (HIGH, sleep,
\* LOW, sleep), then the group pause.
Group(n) == Repeat(<<"out_HIGH", "sleep", "out_LOW", "sleep">>, n) \o <<"sleep">>

\* the record of the call without the lazy initialization in front of it
SinceInit(log) ==
    IF IsPrefix(InitGpioRecord, log) THEN SubSeq(log, 4, Len(log)) ELSE log

Groups(t) == (Len(SinceInit(hw[t])) - 1) \div (4 * args[t].count + 1)

NormalAlarm(t) ==
    /\ pc[t] = "done" /\ fn[t] = "alarm" /\ RPI_AVAILABLE
    /\ result[t] = "returned" /\ args[t].count >= 1

\* C4 as stated, for its count: the HIGH / LOW writes made by a normally
\* returning alarm() with N >= 1 beeps per group (here with D >= 1, so that at
\* least one group is played) are a multiple of 2N in number.
C4_WritesMultipleOf2N ==
    \A t \in Threads :
        (NormalAlarm(t) /\ args[t].duration >= 1) =>
            Len(OutWrites(hw[t])) % (2 * args[t].count) = 0

\* C4, amended. A normally returning alarm() with N >= 1 leaves the record
\* [lazy init] ++ g groups ++ [LOW]: inside the loop the levels are [HIGH, LOW]
\* N times per group with the group pause after each group, 2N*g writes; the
\* loop ran until elapsed >= D (g groups, the last one started with elapsed < D);
\* the call as a whole adds the final LOW, and the LOW of lazy initialization
\* when it configured the pin.
C4_PatternShape ==
    \A t \in Threads :
        NormalAlarm(t) =>
            LET g == Groups(t)
                body == SinceInit(hw[t])
            IN  /\ g >= 0
                /\ body = Repeat(Group(args[t].count), g) \o <<"out_LOW">>
                /\ g * Cycle(t) >= args[t].duration
                /\ g > 0 => (g - 1) * Cycle(t) < args[t].duration
                /\ blocked[t] = g * Cycle(t)
                /\ Len(OutWrites(body)) = 2 * args[t].count * g + 1
                /\ Len(OutWrites(hw[t])) - Len(OutWrites(body))
                       = IF IsPrefix(InitGpioRecord, hw[t]) THEN 1 ELSE 0

\* alarm(D = 2, N = 2, ...) has returned after two full groups
C4_Witness ==
    \E t \in Threads :
        /\ NormalAlarm(t) /\ args[t].count = 2 /\ args[t].duration = 2
        /\ Groups(t) = 2 /\ Len(OutWrites(SinceInit(hw[t]))) = 9

\* C5. With hardware available, sleeps exact and hardware calls instantaneous,
\* for D >= 0 the time alarm() / alarm_flash() has blocked never exceeds
\* D + N*(Ton + Toff) + Tpause.
C5_OvershootBound ==
    \A t \in Threads :
        (/\ \/ fn[t] = "alarm" /\ RPI_AVAILABLE
            \/ fn[t] = "alarm_flash" /\ NEOPIXEL_AVAILABLE
         /\ args[t].duration >= 0) =>
            /\ blocked[t] <= args[t].duration + Cycle(t)
            /\ clock - start[t] <= args[t].duration + Cycle(t)

\* alarm_flash() has returned normally after blocking longer than D > 0
C5_Witness ==
    \E t \in Threads :
        /\ pc[t] = "done" /\ fn[t] = "alarm_flash" /\ result[t] = "returned"
        /\ args[t].duration > 0 /\ args[t].count > 0
        /\ blocked[t] > args[t].duration

\* C6. cleanup() never raises and leaves the output INACTIVE / black, in mock
\* mode and with hardware, first thing or after any calls, any number of times.
C6_CleanupSafe ==
    \A t \in Threads :
        /\ (pc[t] = "done" /\ fn[t] = "piezo.cleanup") =>
               (result[t] = "returned" /\ pin = LOW)
        /\ (pc[t] = "done" /\ fn[t] = "pixel.cleanup") =>
               (result[t] = "returned" /\ leds = BLACK)
        /\ (fn[t] \in {"piezo.cleanup", "pixel.cleanup"}) => ~exc[t]

\* pixel cleanup() has returned on a strip that was already constructed
C6_Witness ==
    \E t \in Threads :
        /\ pc[t] = "done" /\ fn[t] = "pixel.cleanup" /\ NEOPIXEL_AVAILABLE
        /\ hw[t] = BlackRecord

\* C7 as stated: cleanup() in mock mode or before initialization performs no
\* hardware operation (no configuration, no strip construction, no output
\* write), prints nothing and leaves the handle / flag as it was.
C7_CleanupNoOp ==
    \A t \in Threads :
        /\ (fn[t] = "piezo.cleanup" /\ ~RPI_AVAILABLE) =>
               (hw[t] = <<>> /\ printed[t] = <<>> /\ ~_initialized)
        /\ (fn[t] = "pixel.cleanup" /\ ~NEOPIXEL_AVAILABLE) =>
               (hw[t] = <<>> /\ printed[t] = <<>> /\ _pixels = None)
        /\ (fn[t] = "piezo.cleanup") =>
               (~Has(hw[t], "setmode") /\ ~Has(hw[t], "setup"))
        /\ (fn[t] = "pixel.cleanup") => ~Has(hw[t], "NeoPixel")

\* C8. Piezo cleanup() of an initialized driver writes LOW, releases the pin
\* and resets the flag (after cleanup() the driver is never initialized and
\* the pin never configured), and whoever writes HIGH afterwards has the pin
\* configured again first: HIGH is only ever written on a pin that is set up
\* as an output, and a call that sets the pin up does setmode, setup, LOW
\* before anything else.
C8_ReinitAfterCleanup ==
    \A t \in Threads :
        /\ (fn[t] = "piezo.cleanup" /\ RPI_AVAILABLE) =>
               /\ IsPrefix(hw[t], <<"out_LOW", "gpio_cleanup">>)
               /\ pc[t] = "piezo_cleanup_low" => (_initialized /\ hw[t] = <<>>)
               /\ pc[t] = "done" =>
                      /\ ~_initialized /\ pinMode = "IN" /\ setups = 0 /\ pin = LOW
                      /\ hw[t] \in {<<>>, <<"out_LOW", "gpio_cleanup">>}
        /\ (pc[t] \in {"alarm_high", "beep_high"}) =>
               (_initialized /\ pinMode = "OUT" /\ setups = 1)
        /\ (pin = HIGH) => (pinMode = "OUT" /\ _initialized)
        /\ (fn[t] \in {"_init_gpio", "_beep", "alarm"} /\ Has(hw[t], "setup")) =>
               \/ IsPrefix(hw[t], InitGpioRecord)
               \/ IsPrefix(InitGpioRecord, hw[t])

\* cleanup() has released a configured pin
C8_Witness ==
    \E t \in Threads :
        /\ pc[t] = "done" /\ fn[t] = "piezo.cleanup"
        /\ hw[t] = <<"out_LOW", "gpio_cleanup">> /\ ~_initialized

\* C9. A failure raised inside the pattern loop reaches the caller and is not
\* retried: the call ends "raised" exactly when a failure occurred, there is
\* one failure at most, and after it the only hardware action is the forced
\* INACTIVE / black write (LOW; fill(black), show()): no ACTIVE write, no sleep.
C9_FailurePropagates ==
    \A t \in Threads :
        /\ exc[t] <=> Has(hw[t], "raise")
        /\ pc[t] = "done" => (result[t] = "raised" <=> exc[t])
        /\ exc[t] =>
               /\ fn[t] \in {"alarm", "alarm_flash"}
               /\ Len(SelectSeq(hw[t], LAMBDA e : e = "raise")) = 1
               /\ fn[t] = "alarm" =>
                      /\ IsPrefix(AfterRaise(hw[t]), <<"out_LOW">>)
                      /\ pc[t] = "done" => AfterRaise(hw[t]) = <<"out_LOW">>
               /\ fn[t] = "alarm_flash" =>
                      /\ IsPrefix(AfterRaise(hw[t]), BlackRecord)
                      /\ pc[t] = "done" => AfterRaise(hw[t]) = BlackRecord

\* alarm_flash() has ended by handing on the failure of a show()
C9_Witness ==
    \E t \in Threads :
        /\ pc[t] = "done" /\ fn[t] = "alarm_flash" /\ result[t] = "raised"
        /\ Has(hw[t], "fill_red")
        /\ \E k \in 2..Len(hw[t]) : hw[t][k] = "raise" /\ hw[t][k - 1] = "show"

\* a driver in mock mode is untouched: state part of C10
C10_MockInert ==
    /\ ~RPI_AVAILABLE =>
           /\ ~_initialized /\ pinMode = "IN" /\ setups = 0 /\ pin = LOW
           /\ \A t \in Threads : fn[t] \in PiezoCalls => (hw[t] = <<>> /\ blocked[t] = 0)
    /\ ~NEOPIXEL_AVAILABLE =>
           /\ _pixels = None /\ staged = <<>> /\ leds = BLACK
           /\ \A t \in Threads :
                  fn[t] \in PixelCalls =>
                      (hw[t] = <<>> /\ blocked[t] = 0 /\ pixels[t] = None /\ retval[t] = None)

\* no step re-evaluates an availability flag: step part of C10
C10_FlagsKept == UNCHANGED <<RPI_AVAILABLE, NEOPIXEL_AVAILABLE>>

\* C10. Mock mode is permanent and inert: the availability flags never change,
\* and while a flag is false its driver stays uninitialized and no hardware
\* operation of that driver is ever performed.
C10_MockPermanent == []C10_MockInert /\ [][C10_FlagsKept]_vars

\* _set_all(red) has returned with both drivers in mock mode
C10_Witness ==
    /\ ~RPI_AVAILABLE /\ ~NEOPIXEL_AVAILABLE
    /\ \E t \in Threads :
        /\ pc[t] = "done" /\ fn[t] = "_set_all" /\ args[t].color = RED

\* the strip exists once and pixel cleanup() only blacks it out: state part of C11
C11_OneStrip ==
    /\ Len(staged) <= 1
    /\ Len(staged) = 1 => _pixels = 1
    /\ \A t \in Threads :
        /\ fn[t] \in PixelCalls =>
               /\ Len(SelectSeq(hw[t], LAMBDA e : e = "NeoPixel")) <= 1
               /\ ~Has(hw[t], "deinit")
        /\ (fn[t] = "pixel.cleanup" /\ NEOPIXEL_AVAILABLE) =>
               /\ ~Has(hw[t], "fill_red")
               /\ pc[t] = "done" =>
                      /\ _pixels # None
                      /\ hw[t] \in {BlackRecord, InitPixelsRecord \o BlackRecord}

\* a handle, once set, is never replaced or reset: step part of C11
C11_HandleKept == (_pixels # None) => (_pixels' = _pixels /\ Len(staged') = Len(staged))

\* C11. With hardware available the strip object is constructed at most once
\* over any sequence of _init_pixels, _set_all, alarm_flash and cleanup calls;
\* once _pixels is non-null it stays the same handle; pixel cleanup() only
\* writes black (after lazy initialization when it is the first call) and never
\* releases or resets the handle.
C11_HandleForLife == []C11_OneStrip /\ [][C11_HandleKept]_vars

\* pixel cleanup() has returned on a strip that existed and the handle is kept
C11_Witness ==
    \E t \in Threads :
        /\ pc[t] = "done" /\ fn[t] = "pixel.cleanup" /\ hw[t] = BlackRecord
        /\ _pixels = 1 /\ leds = BLACK /\ Len(staged) = 1

\* The record alarm_flash() leaves for one group of n flashes in colour c.
FlashGroup(n, c) ==
    Repeat(<<FillOp(c), "show", "sleep", "fill_black", "show", "sleep">>, n) \o <<"sleep">>

SinceInitPixels(log) ==
    IF IsPrefix(InitPixelsRecord, log) THEN SubSeq(log, 4, Len(log)) ELSE log

\* t is inside a group of alarm(): past the while test, not yet back at it
InAlarmGroup(t) ==
    pc[t] \in {"alarm_for", "alarm_high", "alarm_on", "alarm_low", "alarm_off",
               "alarm_pause"}

\* t is inside a group of alarm_flash(), the _set_all calls of the group included
InFlashGroup(t) ==
    \/ pc[t] \in {"flash_for", "flash_set_on", "flash_on", "flash_set_off", "flash_off",
                  "flash_pause"}
    \/ InFlashTry(t)

\* records made of whole groups, and records that stop inside a group
WholeGroups(body, group) ==
    /\ Len(body) % Len(group) = 0
    /\ body = Repeat(group, Len(body) \div Len(group))

PartOfGroups(body, group) ==
    IsPrefix(body, Repeat(group, (Len(body) \div Len(group)) + 1))

\* the place in the group that the statement t is at corresponds to
AlarmGroupOffset(t) ==
    CASE pc[t] = "alarm_for" -> 4 * i[t]
      [] pc[t] = "alarm_high" -> 4 * (i[t] - 1)
      [] pc[t] = "alarm_on" -> 4 * (i[t] - 1) + 1
      [] pc[t] = "alarm_low" -> 4 * (i[t] - 1) + 2
      [] pc[t] = "alarm_off" -> 4 * (i[t] - 1) + 3
      [] OTHER -> 4 * args[t].count

\* C12. A group is never cut short by duration expiry. Absent a failure, the
\* only statement that leaves the loop is the while test, which is reached
\* with a record of whole groups only (N times ACTIVE, hold, INACTIVE, hold,
\* then the group pause); inside a group the record is the whole groups played
\* so far followed by the part of the current group up to the statement
\* reached, whatever the elapsed time; a call that returned normally played
\* whole groups and then forced the output off.
C12_GroupsAreWhole ==
    \A t \in Threads :
        /\ (fn[t] = "alarm" /\ RPI_AVAILABLE /\ ~exc[t]) =>
               LET body == SinceInit(hw[t])
                   group == Group(args[t].count)
               IN  /\ pc[t] \in {"alarm_while", "alarm_finally"} => WholeGroups(body, group)
                   /\ InAlarmGroup(t) =>
                          /\ PartOfGroups(body, group)
                          /\ Len(body) % Len(group) = AlarmGroupOffset(t)
                   /\ pc[t] = "done" =>
                          /\ Len(body) >= 1
                          /\ WholeGroups(SubSeq(body, 1, Len(body) - 1), group)
                          /\ body[Len(body)] = "out_LOW"
        /\ (fn[t] = "alarm_flash" /\ NEOPIXEL_AVAILABLE /\ ~exc[t]) =>
               LET body == SinceInitPixels(hw[t])
                   group == FlashGroup(args[t].count, args[t].color)
               IN  /\ pc[t] \in {"flash_while", "flash_finally"} => WholeGroups(body, group)
                   /\ InFlashGroup(t) => PartOfGroups(body, group)
                   /\ pc[t] = "flash_pause" => Len(body) % Len(group) = 6 * args[t].count
                   /\ pc[t] = "done" =>
                          /\ Len(body) >= 2
                          /\ WholeGroups(SubSeq(body, 1, Len(body) - 2), group)
                          /\ SubSeq(body, Len(body) - 1, Len(body)) = BlackRecord

\* alarm() is about to play the second beep of a group although the duration
\* has expired during the first
C12_Witness ==
    \E t \in Threads :
        /\ fn[t] = "alarm" /\ pc[t] = "alarm_high" /\ i[t] = 2 /\ ~exc[t]
        /\ args[t].duration >= 1
        /\ clock - start[t] >= args[t].duration

\* t is in the loop of alarm() / alarm_flash(): at the while test or in a group
InAlarmLoop(t) == fn[t] = "alarm" /\ (pc[t] = "alarm_while" \/ InAlarmGroup(t))

InFlashLoop(t) == fn[t] = "alarm_flash" /\ (pc[t] = "flash_while" \/ InFlashGroup(t))

\* the loop is left only to the finally clause, and only by the while test
\* finding elapsed >= D or by an exception raised in this step: step part of C13
C13_LoopExit ==
    \A t \in Threads :
        /\ (InAlarmLoop(t) /\ ~InAlarmLoop(t)') =>
               /\ pc'[t] = "alarm_finally"
               /\ \/ pc[t] = "alarm_while" /\ clock - start[t] >= args[t].duration
                                           /\ exc'[t] = exc[t]
                  \/ ~exc[t] /\ exc'[t]
        /\ (InFlashLoop(t) /\ ~InFlashLoop(t)') =>
               /\ pc'[t] = "flash_finally"
               /\ \/ pc[t] = "flash_while" /\ clock - start[t] >= args[t].duration
                                           /\ exc'[t] = exc[t]
                  \/ ~exc[t] /\ exc'[t]

\* a call of alarm() / alarm_flash() whose group cycle takes positive time
C13_Started(t) ==
    /\ InCall(t)
    /\ fn[t] \in {"alarm", "alarm_flash"}
    /\ Cycle(t) > 0

C13_Returned(t) == pc[t] = "done" /\ (exc[t] \/ result[t] = "returned")

\* C13. Termination: with hardware available, a started alarm() or
\* alarm_flash() whose group cycle takes positive time, N*(Ton+Toff) + Tpause > 0,
\* eventually returns, whatever the finite duration D (normally when nothing
\* failed); and the loop is left only by the while test finding elapsed >= D
\* or by an exception.
C13_Terminates ==
    /\ C13_Started(Main) ~> C13_Returned(Main)
    /\ [][C13_LoopExit]_vars

\* alarm_flash() returned normally after more than one group of positive length
C13_Witness ==
    \E t \in Threads :
        /\ fn[t] = "alarm_flash" /\ pc[t] = "done" /\ result[t] = "returned" /\ ~exc[t]
        /\ Cycle(t) > 0
        /\ args[t].duration > Cycle(t)
        /\ blocked[t] >= args[t].duration

IsFill(e) == e \in {"fill_black", "fill_red"}

\* t is at the statement that pushes what was just staged
AtShow(t) == pc[t] \in {"set_all_show", "init_pixels_show"}

\* C14 as stated: in every run, each fill is immediately followed by a show
\* and each show immediately preceded by a fill
C14_FillThenShow ==
    \A t \in Threads :
        (fn[t] \in PixelCalls /\ NEOPIXEL_AVAILABLE) =>
            \A k \in 1..Len(hw[t]) :
                /\ IsFill(hw[t][k]) =>
                       \/ k = Len(hw[t]) /\ AtShow(t)
                       \/ k < Len(hw[t]) /\ hw[t][k + 1] = "show"
                /\ hw[t][k] = "show" => (k > 1 /\ IsFill(hw[t][k - 1]))

\* C14. Pixel two-phase write: with hardware available, in _init_pixels,
\* _set_all, alarm_flash and cleanup every fill that returns is immediately
\* followed by one show call, before any other strip operation, and show is
\* never called without the fill directly before it; after a show that
\* returned the LEDs carry the staged colour. A fill that raises inside the
\* loop of alarm_flash is not followed by a show: the finally clause stages
\* black over it and pushes that.
C14_TwoPhase ==
    \A t \in Threads :
        (fn[t] \in PixelCalls /\ NEOPIXEL_AVAILABLE) =>
            /\ \A k \in 1..Len(hw[t]) :
                /\ IsFill(hw[t][k]) =>
                       \/ k = Len(hw[t]) /\ AtShow(t)
                       \/ k < Len(hw[t]) /\ hw[t][k + 1] = "show"
                       \/ /\ k < Len(hw[t]) /\ hw[t][k + 1] = "raise"
                          /\ exc[t] /\ fn[t] = "alarm_flash"
                          /\ k + 2 <= Len(hw[t]) => hw[t][k + 2] = "fill_black"
                /\ hw[t][k] = "show" => (k > 1 /\ IsFill(hw[t][k - 1]))
            /\ (hw[t] # <<>> /\ hw[t][Len(hw[t])] = "show") =>
                   (_pixels # None /\ leds = staged[_pixels])

\* alarm_flash() has returned after a fill of the loop raised: the colour was
\* pushed by earlier flashes, and the failed fill is followed by the black-out
C14_Witness ==
    \E t \in Threads :
        /\ fn[t] = "alarm_flash" /\ pc[t] = "done" /\ exc[t]
        /\ Len(hw[t]) >= 6
        /\ SubSeq(hw[t], Len(hw[t]) - 3, Len(hw[t])) =
               <<"fill_red", "raise", "fill_black", "show">>
        /\ \E k \in 1..(Len(hw[t]) - 4) : hw[t][k] = "fill_red" /\ hw[t][k + 1] = "show"
        /\ leds = BLACK

\* t is in the on-phase of alarm(): it has driven the pin HIGH, not yet LOW
InBeep(t) == fn[t] = "alarm" /\ pc[t] \in {"alarm_on", "alarm_low"}

\* t is in the on-phase of alarm_flash(): it has shown the colour, not yet black
InFlash(t) ==
    /\ fn[t] = "alarm_flash"
    /\ \/ pc[t] \in {"flash_on", "flash_set_off"}
       \/ stack[t] # <<>> /\ stack[t][Len(stack[t])] = "flash_off"

\* the output is ACTIVE only in the on-phase of the one call that is running
OutputOwned ==
    /\ pin = HIGH => \E t \in Threads : InBeep(t) /\ \A u \in Threads \ {t} : ~InCall(u)
    /\ leds # BLACK => \E t \in Threads : InFlash(t) /\ \A u \in Threads \ {t} : ~InCall(u)

\* a call has returned, and the output is ACTIVE by the on-phase of another
ActiveAfterReturn ==
    \E t \in Threads, u \in Threads :
        /\ t # u
        /\ pc[t] = "done"
        /\ \/ fn[t] = "alarm" /\ InBeep(u) /\ pin = HIGH
           \/ fn[t] = "alarm_flash" /\ InFlash(u) /\ leds # BLACK

\* the hardware was configured more than once
ConfiguredTwice == setups > 1 \/ Len(staged) > 1

\* C15. Concurrent invocation races: when the calls of alarm() /
\* alarm_flash() made by two threads are serialized (no call is entered while
\* another runs), the output is ACTIVE only in the on-phase of the one call
\* that is running, hence off whenever no call runs, and the hardware is
\* configured at most once. Without serialization both race states are
\* reached: a call has returned while the output is ACTIVE because the other
\* call, entered before it returned, is in its on-phase, and both calls passed
\* the not-yet-initialized test and configured the hardware twice.
C15_SerializedNoRace == ~overlapped => (OutputOwned /\ ~ConfiguredTwice)

\* two overlapping calls of alarm(): both configured the pin, one has
\* returned, the other holds the output on in its on-phase
C15_Witness ==
    /\ overlapped
    /\ fn["t1"] = "alarm" /\ pc["t1"] = "done" /\ result["t1"] = "returned"
    /\ fn["t2"] = "alarm" /\ pc["t2"] = "alarm_on"
    /\ pin = HIGH
    /\ setups = 2
    /\ ActiveAfterReturn /\ ConfiguredTwice

\* the statement t runs next is a GPIO.output call
AtWrite(t) ==
    pc[t] \in {"init_gpio_low", "beep_high", "beep_low", "alarm_high", "alarm_low",
               "alarm_finally", "piezo_cleanup_low"}

\* C16. The piezo pin is never written while unconfigured: with hardware
\* available and calls serialized, in every state reached by any sequence of
\* _init_gpio, _beep, alarm and cleanup calls, wherever a GPIO.output call is
\* the next statement the pin was set up as an output and is not released,
\* and _initialized is true unless the write is the one of the _init_gpio
\* call that is setting the pin up; every write on record was made so, and
\* pin HIGH implies the driver is initialized.
C16_WrittenWhileConfigured ==
    /\ \A t \in Threads :
        /\ AtWrite(t) =>
               /\ pinMode = "OUT"
               /\ setups = 1
               /\ _initialized \/ pc[t] = "init_gpio_low"
        /\ (fn[t] \in PiezoCalls /\ OutWrites(hw[t]) # <<>>) =>
               /\ RPI_AVAILABLE
               /\ \/ _initialized /\ pinMode = "OUT"
                  \/ pc[t] = "init_gpio_flag" /\ pinMode = "OUT"
                  \/ pc[t] \in {"piezo_cleanup_release", "piezo_cleanup_flag", "done"}
                         /\ fn[t] = "piezo.cleanup"
    /\ pin = HIGH => (_initialized /\ pinMode = "OUT")

\* _init_gpio() has written the pin LOW after setting it up, and the flag is
\* not set yet
C16_Witness ==
    \E t \in Threads :
        /\ pc[t] = "init_gpio_flag"
        /\ hw[t] = InitGpioRecord
        /\ ~_initialized /\ pinMode = "OUT" /\ pin = LOW

Pauses(g) == Repeat(<<"sleep">>, g)

\* g pauses are what it takes for the duration to elapse: not one fewer
ElapsesAfter(t, g) ==
    /\ g >= 1
    /\ g * args[t].group_pause >= args[t].duration
    /\ (g - 1) * args[t].group_pause < args[t].duration
    /\ blocked[t] = g * args[t].group_pause

\* C17. With hardware available, alarm() / alarm_flash() called with
\* duration <= 0 executes no group: the output is never set ACTIVE, no sleep
\* happens, and the call returns after lazy initialization and exactly one
\* forced LOW / black write. Called with zero beeps / flashes per group and
\* duration > 0 it never sets the output ACTIVE: it only repeats the group
\* pause, and when it returns normally the pauses are just as many as it
\* takes for the duration to elapse, followed by the forced LOW / black write.
C17_DegenerateArguments ==
    \A t \in Threads :
        /\ (fn[t] = "alarm" /\ RPI_AVAILABLE /\ args[t].duration <= 0) =>
               /\ ~Has(hw[t], "out_HIGH") /\ ~Has(hw[t], "sleep") /\ ~Has(hw[t], "raise")
               /\ blocked[t] = 0 /\ ~exc[t]
               /\ pin = LOW
               /\ pc[t] = "done" =>
                      /\ result[t] = "returned"
                      /\ _initialized
                      /\ hw[t] \in {<<"out_LOW">>, InitGpioRecord \o <<"out_LOW">>}
        /\ (fn[t] = "alarm_flash" /\ NEOPIXEL_AVAILABLE /\ args[t].duration <= 0) =>
               /\ ~Has(hw[t], "fill_red") /\ ~Has(hw[t], "sleep") /\ ~Has(hw[t], "raise")
               /\ blocked[t] = 0 /\ ~exc[t]
               /\ pc[t] = "done" =>
                      /\ result[t] = "returned"
                      /\ leds = BLACK
                      /\ _pixels # None
                      /\ hw[t] \in {BlackRecord, InitPixelsRecord \o BlackRecord}
        /\ (fn[t] = "alarm" /\ RPI_AVAILABLE /\ args[t].count = 0
                /\ args[t].duration > 0) =>
               /\ ~Has(hw[t], "out_HIGH")
               /\ pin = LOW
               /\ InAlarmLoop(t) /\ ~exc[t] =>
                      SinceInit(hw[t]) = Pauses(Len(SinceInit(hw[t])))
               /\ (pc[t] = "done" /\ ~exc[t]) =>
                      LET g == Len(SinceInit(hw[t])) - 1
                      IN  /\ ElapsesAfter(t, g)
                          /\ SinceInit(hw[t]) = Pauses(g) \o <<"out_LOW">>
        /\ (fn[t] = "alarm_flash" /\ NEOPIXEL_AVAILABLE /\ args[t].count = 0
                /\ args[t].duration > 0) =>
               /\ ~Has(hw[t], "fill_red")
               /\ pc[t] = "done" => leds = BLACK
               /\ InFlashLoop(t) /\ ~exc[t] =>
                      SinceInitPixels(hw[t]) = Pauses(Len(SinceInitPixels(hw[t])))
               /\ (pc[t] = "done" /\ ~exc[t]) =>
                      LET g == Len(SinceInitPixels(hw[t])) - 2
                      IN  /\ ElapsesAfter(t, g)
                          /\ SinceInitPixels(hw[t]) = Pauses(g) \o BlackRecord

\* alarm_flash() with a negative duration has returned on a fresh strip: it
\* constructed the strip and blacked it out, and did nothing else
C17_Witness ==
    \E t \in Threads :
        /\ fn[t] = "alarm_flash" /\ pc[t] = "done" /\ result[t] = "returned"
        /\ args[t].duration < 0 /\ args[t].count >= 1 /\ args[t].color = RED
        /\ hw[t] = InitPixelsRecord \o BlackRecord
        /\ blocked[t] = 0

\* ================================================================ system
Next ==
    \/ \E t \in {Main} : call_over(t)
    \/ \E t \in {Main} : call_init_gpio(t)
    \/ \E t \in {Main} : init_gpio_enter(t)
    \/ \E t \in {Main} : init_gpio_setmode(t)
    \/ \E t \in {Main} : init_gpio_setup(t)
    \/ \E t \in {Main} : init_gpio_low(t)
    \/ \E t \in {Main} : init_gpio_flag(t)
    \/ \E t \in {Main} : call_beep(t)
    \/ \E t \in {Main} : beep_enter(t)
    \/ \E t \in {Main} : beep_check(t)
    \/ \E t \in {Main} : beep_high(t)
    \/ \E t \in {Main} : beep_on(t)
    \/ \E t \in {Main} : beep_low(t)
    \/ \E t \in {Main} : beep_off(t)
    \/ \E t \in {Main} : call_alarm(t)
    \/ \E t \in {Main} : alarm_enter(t)
    \/ \E t \in {Main} : alarm_start(t)
    \/ \E t \in {Main} : alarm_while(t)
    \/ \E t \in {Main} : alarm_for(t)
    \/ \E t \in {Main} : alarm_high(t)
    \/ \E t \in {Main} : alarm_on(t)
    \/ \E t \in {Main} : alarm_low(t)
    \/ \E t \in {Main} : alarm_off(t)
    \/ \E t \in {Main} : alarm_pause(t)
    \/ \E t \in {Main} : alarm_finally(t)
    \/ \E t \in {Main} : alarm_output_raises(t)
    \/ \E t \in {Main} : alarm_sleep_raises(t)
    \/ \E t \in {Main} : call_piezo_cleanup(t)
    \/ \E t \in {Main} : piezo_cleanup_enter(t)
    \/ \E t \in {Main} : piezo_cleanup_low(t)
    \/ \E t \in {Main} : piezo_cleanup_release(t)
    \/ \E t \in {Main} : piezo_cleanup_flag(t)
    \/ \E t \in {Main} : call_init_pixels(t)
    \/ \E t \in {Main} : init_pixels_enter(t)
    \/ \E t \in {Main} : init_pixels_new(t)
    \/ \E t \in {Main} : init_pixels_fill(t)
    \/ \E t \in {Main} : init_pixels_show(t)
    \/ \E t \in {Main} : init_pixels_return(t)
    \/ \E t \in {Main} : call_set_all(t)
    \/ \E t \in {Main} : set_all_enter(t)
    \/ \E t \in {Main} : set_all_check(t)
    \/ \E t \in {Main} : set_all_fill(t)
    \/ \E t \in {Main} : set_all_show(t)
    \/ \E t \in {Main} : call_alarm_flash(t)
    \/ \E t \in {Main} : flash_enter(t)
    \/ \E t \in {Main} : flash_start(t)
    \/ \E t \in {Main} : flash_while(t)
    \/ \E t \in {Main} : flash_for(t)
    \/ \E t \in {Main} : flash_set_on(t)
    \/ \E t \in {Main} : flash_on(t)
    \/ \E t \in {Main} : flash_set_off(t)
    \/ \E t \in {Main} : flash_off(t)
    \/ \E t \in {Main} : flash_pause(t)
    \/ \E t \in {Main} : flash_finally(t)
    \/ \E t \in {Main} : flash_exit(t)
    \/ \E t \in {Main} : flash_fill_raises(t)
    \/ \E t \in {Main} : flash_show_raises(t)
    \/ \E t \in {Main} : flash_sleep_raises(t)
    \/ \E t \in {Main} : call_pixel_cleanup(t)
    \/ \E t \in {Main} : pixel_cleanup_enter(t)
    \/ \E t \in {Main} : pixel_cleanup_check(t)
    \/ \E t \in {Main} : pixel_cleanup_exit(t)

Spec == Init /\ [][Next]_vars

\* The program started on a board that has both devices, and calls only
\* alarm() and alarm_flash().
InitTerm == Init /\ RPI_AVAILABLE /\ NEOPIXEL_AVAILABLE

NextTerm ==
    \/ \E t \in {Main} : call_over(t)
    \/ \E t \in {Main} : call_alarm(t)
    \/ \E t \in {Main} : alarm_enter(t)
    \/ \E t \in {Main} : init_gpio_enter(t)
    \/ \E t \in {Main} : init_gpio_setmode(t)
    \/ \E t \in {Main} : init_gpio_setup(t)
    \/ \E t \in {Main} : init_gpio_low(t)
    \/ \E t \in {Main} : init_gpio_flag(t)
    \/ \E t \in {Main} : alarm_start(t)
    \/ \E t \in {Main} : alarm_while(t)
    \/ \E t \in {Main} : alarm_for(t)
    \/ \E t \in {Main} : alarm_high(t)
    \/ \E t \in {Main} : alarm_on(t)
    \/ \E t \in {Main} : alarm_low(t)
    \/ \E t \in {Main} : alarm_off(t)
    \/ \E t \in {Main} : alarm_pause(t)
    \/ \E t \in {Main} : alarm_finally(t)
    \/ \E t \in {Main} : alarm_output_raises(t)
    \/ \E t \in {Main} : alarm_sleep_raises(t)
    \/ \E t \in {Main} : call_alarm_flash(t)
    \/ \E t \in {Main} : flash_enter(t)
    \/ \E t \in {Main} : flash_start(t)
    \/ \E t \in {Main} : init_pixels_enter(t)
    \/ \E t \in {Main} : init_pixels_new(t)
    \/ \E t \in {Main} : init_pixels_fill(t)
    \/ \E t \in {Main} : init_pixels_show(t)
    \/ \E t \in {Main} : init_pixels_return(t)
    \/ \E t \in {Main} : set_all_enter(t)
    \/ \E t \in {Main} : set_all_check(t)
    \/ \E t \in {Main} : set_all_fill(t)
    \/ \E t \in {Main} : set_all_show(t)
    \/ \E t \in {Main} : flash_while(t)
    \/ \E t \in {Main} : flash_for(t)
    \/ \E t \in {Main} : flash_set_on(t)
    \/ \E t \in {Main} : flash_on(t)
    \/ \E t \in {Main} : flash_set_off(t)
    \/ \E t \in {Main} : flash_off(t)
    \/ \E t \in {Main} : flash_pause(t)
    \/ \E t \in {Main} : flash_finally(t)
    \/ \E t \in {Main} : flash_exit(t)
    \/ \E t \in {Main} : flash_fill_raises(t)
    \/ \E t \in {Main} : flash_show_raises(t)
    \/ \E t \in {Main} : flash_sleep_raises(t)

\* A thread inside a call keeps running: the interpreter schedules it and
\* every time.sleep returns.
Running(t) == InCall(t) /\ NextTerm

SpecTerm == InitTerm /\ [][NextTerm]_vars /\ WF_vars(Running(Main))

\* Two threads share the drivers on a board that has both devices; each calls
\* alarm() or alarm_flash() once, at any moment, and the interpreter switches
\* between them at any statement.
InitConc == Init /\ RPI_AVAILABLE /\ NEOPIXEL_AVAILABLE

NextConc ==
    \/ \E t \in Threads : thread_alarm(t)
    \/ \E t \in Threads : alarm_enter(t)
    \/ \E t \in Threads : init_gpio_enter(t)
    \/ \E t \in Threads : init_gpio_setmode(t)
    \/ \E t \in Threads : init_gpio_setup(t)
    \/ \E t \in Threads : init_gpio_low(t)
    \/ \E t \in Threads : init_gpio_flag(t)
    \/ \E t \in Threads : alarm_start(t)
    \/ \E t \in Threads : alarm_while(t)
    \/ \E t \in Threads : alarm_for(t)
    \/ \E t \in Threads : alarm_high(t)
    \/ \E t \in Threads : alarm_on(t)
    \/ \E t \in Threads : alarm_low(t)
    \/ \E t \in Threads : alarm_off(t)
    \/ \E t \in Threads : alarm_pause(t)
    \/ \E t \in Threads : alarm_finally(t)
    \/ \E t \in Threads : thread_alarm_flash(t)
    \/ \E t \in Threads : flash_enter(t)
    \/ \E t \in Threads : flash_start(t)
    \/ \E t \in Threads : init_pixels_enter(t)
    \/ \E t \in Threads : init_pixels_new(t)
    \/ \E t \in Threads : init_pixels_fill(t)
    \/ \E t \in Threads : init_pixels_show(t)
    \/ \E t \in Threads : init_pixels_return(t)
    \/ \E t \in Threads : set_all_enter(t)
    \/ \E t \in Threads : set_all_check(t)
    \/ \E t \in Threads : set_all_fill(t)
    \/ \E t \in Threads : set_all_show(t)
    \/ \E t \in Threads : flash_while(t)
    \/ \E t \in Threads : flash_for(t)
    \/ \E t \in Threads : flash_set_on(t)
    \/ \E t \in Threads : flash_on(t)
    \/ \E t \in Threads : flash_set_off(t)
    \/ \E t \in Threads : flash_off(t)
    \/ \E t \in Threads : flash_pause(t)
    \/ \E t \in Threads : flash_finally(t)
    \/ \E t \in Threads : flash_exit(t)

SpecConc == InitConc /\ [][NextConc]_vars
====
